---- MODULE Spec2Model ----
(***************************************************************************)
(* Face Recognition App: the service (gallery load, embedding matching,    *)
(* frame analysis), the face controller and the main loop of run().        *)
(*                                                                         *)
(* Numbers.  Embedding coordinates, distances and the tolerance are exact  *)
(* decimals counted in tenths (8 stands for 0.8).  A confidence is an      *)
(* exact fraction <<numerator, denominator>> in lowest terms.  Bounding    *)
(* box coordinates of the detector are counted in half pixels; the boxes   *)
(* of the results are whole pixels.                                        *)
(***************************************************************************)
EXTENDS Integers, Sequences, FiniteSets, TLC

\* ------------------------------------------------------------------ bounds
\* Most image files inside one label directory.
MaxFiles == 2
\* Most faces the detector reports for one frame.
MaxFaces == 2
\* Most iterations of the main loop.
MaxIter == 3

\* ------------------------------------------------------- program constants
\* CPU_CONFIG.face.recognition_tolerance = 0.8, in tenths.
RecognitionTolerance == 8
\* cv2.waitKey(1) & 0xFF
KeyMask == 255
\* key in (27, ord("q"))
KeyEsc == 27
KeyQ == 113

\* ------------------------------------------------------------- arithmetic
Abs(n) == IF n < 0 THEN 0 - n ELSE n

RECURSIVE Gcd(_, _)
Gcd(a, b) == IF b = 0 THEN a ELSE Gcd(b, a % b)

\* The fraction n/d (d # 0) in lowest terms with a positive denominator.
Frac(n, d) ==
    LET g == Gcd(Abs(n), Abs(d))
        s == IF d < 0 THEN 0 - 1 ELSE 1
    IN  << (s * n) \div g, (s * d) \div g >>

FracSub(a, b) == Frac(a[1] * b[2] - b[1] * a[2], a[2] * b[2])
FracLeq(a, b) == a[1] * b[2] <= b[1] * a[2]
\* Python's min(a, b) and max(a, b): the first argument wins a tie.
FracMin(a, b) == IF FracLeq(a, b) THEN a ELSE b
FracMax(a, b) == IF FracLeq(b, a) THEN a ELSE b

Zero == Frac(0, 1)
One == Frac(1, 1)

\* The exact square root; every distance of the model is a whole number of
\* tenths, and TLC stops with an error on a value that is not a square.
Sqrt(n) == CHOOSE r \in 0..n : r * r = n

\* ------------------------------------------------------------------ data
\* ArcFace embeddings, here of dimension 2, in tenths.
Embeddings == { <<0, 0>>, <<3, 0>>, <<0 - 3, 0>>, <<0, 4>>, <<12, 0>> }

\* RecognitionResult(name, confidence), with the exception the call raised
\* instead of returning ("none": it returned).
RecognitionResult(name, confidence) ==
    [exc |-> "none", name |-> name, confidence |-> confidence]
Raised(exc) == [exc |-> exc, name |-> "", confidence |-> Zero]

Unknown == RecognitionResult("Unknown", Zero)

\* np.linalg.norm(encoding - embedding)
norm(encoding, embedding) ==
    Sqrt((encoding[1] - embedding[1]) * (encoding[1] - embedding[1])
       + (encoding[2] - embedding[2]) * (encoding[2] - embedding[2]))

\* distances = np.linalg.norm(encodings_array - embedding, axis=1)
Distances(encodings, embedding) ==
    [i \in 1..Len(encodings) |-> norm(encodings[i], embedding)]

\* np.argmin(distances) scans from the first element and keeps the first
\* occurrence of the minimum.
RECURSIVE ArgminFrom(_, _, _)
ArgminFrom(distances, i, best) ==
    IF i > Len(distances) THEN best
    ELSE ArgminFrom(distances, i + 1,
                    IF distances[i] < distances[best] THEN i ELSE best)

\* A scan that keeps the last occurrence of the minimum.
RECURSIVE ArgminLastFrom(_, _, _)
ArgminLastFrom(distances, i, best) ==
    IF i > Len(distances) THEN best
    ELSE ArgminLastFrom(distances, i + 1,
                        IF distances[i] <= distances[best] THEN i ELSE best)

argmin_last(distances) == ArgminLastFrom(distances, 2, 1)

argmin(distances) == ArgminFrom(distances, 2, 1)

\* best_distance / self.tolerance: Python float division raises on a zero
\* divisor.
DivRaises(tolerance) == tolerance = 0

\* max(0.0, min(1.0, 1.0 - best_distance / self.tolerance))
Confidence(best_distance, tolerance) ==
    FracMax(Zero, FracMin(One, FracSub(One, Frac(best_distance, tolerance))))

\* InsightFaceService._match_embedding
_match_embedding(embedding, encodings, names, tolerance) ==
    IF Len(encodings) = 0 THEN Unknown
    ELSE LET distances == Distances(encodings, embedding)
             best_index == argmin(distances)
             best_distance == distances[best_index]
         IN  IF best_distance <= tolerance
             THEN IF DivRaises(tolerance)
                  THEN Raised("ZeroDivisionError")
                  ELSE RecognitionResult(names[best_index],
                                         Confidence(best_distance, tolerance))
             ELSE Unknown

\* ------------------------------------------------------------ the detector
\* A face as FaceAnalysis.get reports it: bbox = (x1, y1, x2, y2) in half
\* pixels (the detector's coordinates are fractional) and its embedding.
Face(bbox, embedding) == [bbox |-> bbox, embedding |-> embedding]

SmallBox == <<20, 20, 41, 61>>
LargeBox == <<0 - 7, 13, 120, 161>>

\* ------------------------------------------------------ the known faces
\* An entry of a label directory: its suffix, what cv2.imread makes of it
\* ("None": unreadable) and the faces the detector finds in the image.
ImageFile(suffix, image, faces) ==
    [suffix |-> suffix, image |-> image, faces |-> faces]

Files ==
    { ImageFile(".png", "ok", << Face(SmallBox, <<0, 4>>) >>),
      ImageFile(".jpg", "None", << >>),
      ImageFile(".jpg", "ok", << >>),
      ImageFile(".jpg", "ok", << Face(SmallBox, <<3, 0>>) >>),
      ImageFile(".jpg", "ok", << Face(SmallBox, <<0, 4>>),
                                 Face(LargeBox, <<0 - 3, 0>>),
                                 Face(LargeBox, <<3, 0>>) >>) }

SeqsUpTo(S, n) == UNION { [1..k -> S] : k \in 0..n }

\* What a label directory can hold.
DirContents == SeqsUpTo(Files, MaxFiles)

\* The entries of the root: the label directories and a plain file.
Labels == {"Alice", "Bob"}
RootNames == Labels \cup {"notes.txt"}

\* The orders in which iterdir() can yield the entries that exist.
NameOrders ==
    { o \in SeqsUpTo(RootNames, Cardinality(RootNames)) :
        \A i, j \in 1..Len(o) : i # j => o[i] # o[j] }

\* The label directories among the names of an order.
LabelsIn(order) == { order[i] : i \in 1..Len(order) } \cap Labels

DirEntry(name, files) == [is_dir |-> TRUE, name |-> name, files |-> files]
FileEntry(name) == [is_dir |-> FALSE, name |-> name, files |-> << >>]

\* known_faces_dir: whether it exists, and what iterdir() yields, given the
\* order of the names and the contents of each label directory.
KnownFacesDir(order, contents) ==
    [exists |-> TRUE,
     entries |-> [i \in 1..Len(order) |->
                    IF order[i] \in Labels
                    THEN DirEntry(order[i], contents[order[i]])
                    ELSE FileEntry(order[i])]]

MissingDir == [exists |-> FALSE, entries |-> << >>]

\* _area(face) = (x2 - x1) * (y2 - y1)
Area(face) ==
    (face.bbox[3] - face.bbox[1]) * (face.bbox[4] - face.bbox[2])

\* max(faces, key=_area): the first face of the largest area.
RECURSIVE MaxByArea(_, _, _)
MaxByArea(faces, i, best) ==
    IF i > Len(faces) THEN faces[best]
    ELSE MaxByArea(faces, i + 1,
                   IF Area(faces[i]) > Area(faces[best]) THEN i ELSE best)

\* An embedding taken from the first face instead of the largest.
_compute_embedding_first_face(faces) ==
    IF Len(faces) = 0 THEN << >>
    ELSE << faces[1].embedding >>

\* InsightFaceService._compute_embedding_for_image: the embedding, or the
\* empty sequence for None.
_compute_embedding_for_image(faces) ==
    IF Len(faces) = 0 THEN << >>
    ELSE << MaxByArea(faces, 2, 1).embedding >>

\* The gallery: the lists _encodings and _names.
Gallery(encodings, names) == [encodings |-> encodings, names |-> names]
EmptyGallery == Gallery(<< >>, << >>)

\* The inner loop of _load_known_faces over person_dir.glob("*.jpg").
RECURSIVE LoadImages(_, _, _, _)
LoadImages(files, i, name, g) ==
    IF i > Len(files) THEN g
    ELSE LET f == files[i]
             embedding == _compute_embedding_for_image(f.faces)
         IN  IF f.suffix # ".jpg" THEN LoadImages(files, i + 1, name, g)
             ELSE IF f.image = "None" THEN LoadImages(files, i + 1, name, g)
             ELSE IF Len(embedding) = 0 THEN LoadImages(files, i + 1, name, g)
             ELSE LoadImages(files, i + 1, name,
                             Gallery(Append(g.encodings, embedding[1]),
                                     Append(g.names, name)))

\* The outer loop of _load_known_faces over known_faces_dir.iterdir().
RECURSIVE LoadDirs(_, _, _)
LoadDirs(entries, i, g) ==
    IF i > Len(entries) THEN g
    ELSE IF ~entries[i].is_dir THEN LoadDirs(entries, i + 1, g)
    ELSE LoadDirs(entries, i + 1,
                  LoadImages(entries[i].files, 1, entries[i].name, g))

\* What a call of _load_known_faces leaves: the exception it raised ("none":
\* it returned) and the gallery.
LoadResult(exc, g) == [exc |-> exc, gallery |-> g]

\* for person_dir in self.known_faces_dir.iterdir(): ...  Path.iterdir
\* raises FileNotFoundError on a directory that does not exist.
LoadFromDir(dir) ==
    IF ~dir.exists THEN LoadResult("FileNotFoundError", EmptyGallery)
    ELSE LoadResult("none", LoadDirs(dir.entries, 1, EmptyGallery))

\* The load without its check that the directory exists.
_load_known_faces_unchecked(dir) == LoadFromDir(dir)

\* InsightFaceService._load_known_faces, from the empty lists of a new
\* service.
_load_known_faces(dir) ==
    IF ~dir.exists THEN LoadResult("none", EmptyGallery)
    ELSE LoadFromDir(dir)

\* ------------------------------------------------------------ the frames
\* bbox.astype(int): numpy converts a float to an integer by truncation
\* toward zero; v is in half pixels, the result in whole pixels.
AsTypeInt(v) == IF v < 0 THEN 0 - ((0 - v) \div 2) ELSE v \div 2

\* InsightFaceRecognizedFace(box, result) and VideoOverlayFace(box, label,
\* confidence).
InsightFaceRecognizedFace(box, recog) == [box |-> box, result |-> recog]
VideoOverlayFace(box, label, confidence) ==
    [box |-> box, label |-> label, confidence |-> confidence]

\* The body of the loop of InsightFaceService.analyze for one face.
AnalyzeFace(face, encodings, names, tolerance) ==
    LET x1 == AsTypeInt(face.bbox[1])
        y1 == AsTypeInt(face.bbox[2])
        x2 == AsTypeInt(face.bbox[3])
        y2 == AsTypeInt(face.bbox[4])
    IN  InsightFaceRecognizedFace(
            <<y1, x2, y2, x1>>,
            _match_embedding(face.embedding, encodings, names, tolerance))

\* InsightFaceService.analyze: the results of the faces in the detector's
\* order.
analyze(faces, encodings, names, tolerance) ==
    [i \in 1..Len(faces) |-> AnalyzeFace(faces[i], encodings, names, tolerance)]

\* The exception analyze raises, "none" when it returns: the first
\* exception of a _match_embedding call ends the loop.
AnalyzeRaises(faces, encodings, names, tolerance) ==
    LET results == analyze(faces, encodings, names, tolerance)
        bad == { i \in 1..Len(faces) : results[i].result.exc # "none" }
    IN  IF bad = {} THEN "none"
        ELSE results[CHOOSE i \in bad : \A j \in bad : i <= j].result.exc

\* A process_frame that leaves out the faces that matched nobody.
process_frame_known_only(faces, encodings, names, tolerance) ==
    LET results == analyze(faces, encodings, names, tolerance)
        RECURSIVE Keep(_)
        Keep(i) ==
            IF i > Len(results) THEN << >>
            ELSE IF results[i].result.name = "Unknown" THEN Keep(i + 1)
            ELSE << VideoOverlayFace(results[i].box,
                                     results[i].result.name,
                                     results[i].result.confidence) >>
                     \o Keep(i + 1)
    IN  Keep(1)

\* FaceController.process_frame
process_frame(faces, encodings, names, tolerance) ==
    LET results == analyze(faces, encodings, names, tolerance)
    IN  [i \in 1..Len(results) |->
            VideoOverlayFace(results[i].box,
                             results[i].result.name,
                             results[i].result.confidence)]

\* The faces the detector reports, and the frames of the camera: a frame
\* is represented by the faces the detector finds in it.
DetectorFaces ==
    { Face(SmallBox, <<0, 0>>),
      Face(LargeBox, <<0, 4>>),
      Face(LargeBox, <<3, 0>>),
      Face(SmallBox, <<12, 0>>) }

Frames == SeqsUpTo(DetectorFaces, MaxFaces)

\* The tolerances a service is built with (tenths): negative, zero, the
\* distance of a gallery entry, and the configured value.
Tolerances == { 0 - 1, 0, 3, RecognitionTolerance }

\* ------------------------------------------------------------------ state
VARIABLES
    pc,          \* the position of run(), or of the service's user
    tolerance,   \* InsightFaceService.tolerance
    encodings,   \* InsightFaceService._encodings
    names,       \* InsightFaceService._names
    dirExists,   \* whether known_faces_dir existed when the gallery was loaded
    loaded,      \* the gallery as _load_known_faces left it
    listed,      \* the known_faces_dir a load on its own was given
    query,       \* the embedding of the last _match_embedding call
    result,      \* what that call returned or raised
    iter,        \* the number of the loop iteration
    success,     \* success of the last get_frame
    frame,       \* the frame of the last get_frame
    overlays,    \* the overlays of the last process_frame
    steps,       \* the steps the iteration in progress has completed
    calls,       \* the release() and close() calls made, in order
    exitReason,  \* why the loop ended
    pending,     \* the exception in flight
    raisedIn,    \* the step of the loop body that raised
    cameraOpen   \* whether the camera is held

vars == << pc, tolerance, encodings, names, dirExists, loaded, listed, query,
           result,
           iter, success, frame, overlays, steps, calls, exitReason, pending,
           raisedIn, cameraOpen >>

serviceVars == << tolerance, encodings, names, dirExists, loaded, listed >>
matchVars == << query, result >>
loopVars == << iter, success, frame, overlays, steps, exitReason, raisedIn >>
runVars == << iter, success, frame, overlays, steps, calls, exitReason,
              pending, raisedIn, cameraOpen >>

\* InsightFaceService.__post_init__ once FaceAnalysis is prepared: the
\* gallery is loaded from known_faces_dir; an exception of the load leaves
\* the constructor.
PostInit(dir, next) ==
    LET r == _load_known_faces(dir)
    IN  /\ encodings' = r.gallery.encodings
        /\ names' = r.gallery.names
        /\ loaded' = r.gallery
        /\ dirExists' = dir.exists
        /\ pending' = r.exc
        /\ pc' = IF r.exc = "none" THEN next ELSE "raised"

\* The values before the first call.
NoRun ==
    /\ iter = 0
    /\ success = FALSE
    /\ frame = << >>
    /\ overlays = << >>
    /\ steps = << >>
    /\ calls = << >>
    /\ exitReason = "none"
    /\ pending = "none"
    /\ raisedIn = "none"
    /\ cameraOpen = FALSE

NoService ==
    /\ encodings = << >>
    /\ names = << >>
    /\ loaded = EmptyGallery
    /\ dirExists = FALSE
    /\ listed = MissingDir
    /\ query = << >>
    /\ result = Unknown

\* ------------------------------------------------- the service on its own
\* A service is constructed with any tolerance and any known_faces_dir and
\* then asked to match embeddings.
InitService ==
    /\ pc = "new"
    /\ tolerance \in Tolerances
    /\ NoService
    /\ NoRun

NewService ==
    /\ pc = "new"
    /\ \/ PostInit(MissingDir, "ready")
       \/ \E order \in NameOrders :
            \E contents \in [LabelsIn(order) -> DirContents] :
                PostInit(KnownFacesDir(order, contents), "ready")
    /\ UNCHANGED << tolerance, listed, matchVars, loopVars, calls, cameraOpen >>

MatchCall ==
    /\ pc = "ready"
    /\ \E embedding \in Embeddings :
        /\ query' = embedding
        /\ result' = _match_embedding(embedding, encodings, names, tolerance)
    /\ UNCHANGED << pc, serviceVars, runVars >>

NextService == NewService \/ MatchCall

SpecService == InitService /\ [][NextService]_vars

\* ---------------------------------------------------- the load on its own
\* A service is constructed on any known_faces_dir, which is kept to compare
\* the gallery with.
InitLoad ==
    /\ pc = "new"
    /\ tolerance = RecognitionTolerance
    /\ NoService
    /\ NoRun

LoadCall ==
    /\ pc = "new"
    /\ \/ /\ PostInit(MissingDir, "loaded")
          /\ listed' = MissingDir
       \/ \E order \in NameOrders :
            \E contents \in [LabelsIn(order) -> DirContents] :
                /\ PostInit(KnownFacesDir(order, contents), "loaded")
                /\ listed' = KnownFacesDir(order, contents)
    /\ UNCHANGED << tolerance, matchVars, loopVars, calls, cameraOpen >>

SpecLoad == InitLoad /\ [][LoadCall]_vars

\* ------------------------------------------------------------------ run()
\* The key codes cv2.waitKey can return: no key (-1), ESC, q, Q, a, and ESC
\* with a modifier bit set above the low byte.
RawKeys == { 0 - 1, KeyEsc, KeyQ, 81, 97, 1048603 }

\* A comparison of the key code without the mask.
process_events_unmasked(key) == ~(key \in {KeyEsc, KeyQ})

\* VideoView.process_events: whether the app should continue.
process_events(key) ==
    LET masked == key % (KeyMask + 1)
    IN  ~(masked \in {KeyEsc, KeyQ})

\* The positions inside the try block of run().
TryPcs == {"for", "read", "check", "render", "tick"}

\* The known_faces_dir values run() is started on: missing, or with at most
\* one file in each label directory.
RunDirs ==
    { MissingDir }
        \cup UNION { { KnownFacesDir(order, contents) :
                        contents \in [LabelsIn(order) -> SeqsUpTo(Files, 1)] } :
                      order \in NameOrders }

Init ==
    /\ pc = "venv"
    /\ tolerance = RecognitionTolerance
    /\ NoService
    /\ NoRun

\* _ensure_running_in_venv: returns, or raises RuntimeError.
EnsureRunningInVenv ==
    /\ pc = "venv"
    /\ \/ /\ pc' = "camera"
          /\ UNCHANGED pending
       \/ /\ pc' = "raised"
          /\ pending' = "RuntimeError"
    /\ UNCHANGED << serviceVars, matchVars, loopVars, calls, cameraOpen >>

\* OpenCVCamera(...) and CameraController(camera=camera)
OpenCamera ==
    /\ pc = "camera"
    /\ cameraOpen' = TRUE
    /\ pc' = "service"
    /\ UNCHANGED << serviceVars, matchVars, loopVars, calls, pending >>

\* InsightFaceService(...) and FaceController(service=service): the
\* constructor loads the gallery, or FaceAnalysis raises.
ConstructService ==
    /\ pc = "service"
    /\ \/ \E dir \in RunDirs : PostInit(dir, "view")
       \/ /\ pc' = "raised"
          /\ pending' = "Exception"
          /\ UNCHANGED << encodings, names, loaded, dirExists >>
    /\ UNCHANGED << tolerance, listed, matchVars, loopVars, calls, cameraOpen >>

\* MainView(video_view=VideoView(...)) and measure_fps()
ConstructView ==
    /\ pc = "view"
    /\ pc' = "for"
    /\ UNCHANGED << serviceVars, matchVars, runVars >>

\* for delta, fps in fps_gen: the generator never ends.
NextIteration ==
    /\ pc = "for"
    /\ iter < MaxIter
    /\ iter' = iter + 1
    /\ steps' = << >>
    /\ pc' = "read"
    /\ UNCHANGED << serviceVars, matchVars, success, frame, overlays, calls,
                    exitReason, pending, raisedIn, cameraOpen >>

\* success, frame = camera_controller.get_frame()
GetFrame ==
    /\ pc = "read"
    /\ \/ /\ success' = FALSE
          /\ frame' = << >>
       \/ /\ success' = TRUE
          /\ frame' \in Frames
    /\ steps' = Append(steps, "acquire")
    /\ pc' = "check"
    /\ UNCHANGED << serviceVars, matchVars, iter, overlays, calls, exitReason,
                    pending, raisedIn, cameraOpen >>

\* A failed read that leaves the loop instead of continuing it.
SkipFrameBreaks ==
    /\ pc = "check"
    /\ ~success
    /\ pc' = "finally"
    /\ exitReason' = "error"
    /\ UNCHANGED << serviceVars, matchVars, iter, success, frame, overlays,
                    steps, calls, pending, raisedIn, cameraOpen >>

\* if not success: logger.warning(...); continue
SkipFrame ==
    /\ pc = "check"
    /\ ~success
    /\ pc' = "for"
    /\ UNCHANGED << serviceVars, matchVars, runVars >>

\* An exception swallowed inside the iteration.
RaiseContained(step, exc) ==
    /\ pending' = "none"
    /\ raisedIn' = step
    /\ exitReason' = exitReason
    /\ pc' = "for"

\* An exception leaves the try block: it is kept in flight while the
\* finally block runs.
Raise(step, exc) ==
    /\ pending' = exc
    /\ raisedIn' = step
    /\ exitReason' = "error"
    /\ pc' = "finally"

\* A process_frame that adds the embeddings of the frame to the gallery.
ProcessFrameCaching ==
    /\ pc = "check"
    /\ success
    /\ overlays' = process_frame(frame, encodings, names, tolerance)
    /\ encodings' = encodings \o [i \in 1..Len(frame) |-> frame[i].embedding]
    /\ names' = names \o [i \in 1..Len(frame) |-> overlays'[i].label]
    /\ steps' = Append(steps, "process")
    /\ pc' = "render"
    /\ UNCHANGED << tolerance, dirExists, loaded, listed, matchVars, iter, success,
                    frame, calls, exitReason, pending, raisedIn, cameraOpen >>

\* overlays = face_controller.process_frame(frame)
ProcessFrame ==
    /\ pc = "check"
    /\ success
    /\ LET exc == AnalyzeRaises(frame, encodings, names, tolerance)
       IN  IF exc # "none"
           THEN /\ Raise("process", exc)
                /\ UNCHANGED << overlays, steps >>
           ELSE /\ overlays' = process_frame(frame, encodings, names, tolerance)
                /\ steps' = Append(steps, "process")
                /\ pc' = "render"
                /\ UNCHANGED << exitReason, pending, raisedIn >>
    /\ UNCHANGED << serviceVars, matchVars, iter, success, frame, calls,
                    cameraOpen >>

\* main_view.render_frame(frame, overlays, fps=fps)
RenderFrame ==
    /\ pc = "render"
    /\ steps' = Append(steps, "render")
    /\ pc' = "tick"
    /\ UNCHANGED << serviceVars, matchVars, iter, success, frame, overlays,
                    calls, exitReason, pending, raisedIn, cameraOpen >>

\* A tick whose quit decision does not leave the loop.
TickQuitContinues ==
    /\ pc = "tick"
    /\ steps' = Append(steps, "poll")
    /\ \E key \in RawKeys :
        /\ pc' = "for"
        /\ exitReason' = IF process_events(key) THEN exitReason ELSE "quit"
    /\ UNCHANGED << serviceVars, matchVars, iter, success, frame, overlays,
                    calls, pending, raisedIn, cameraOpen >>

\* if not main_view.tick(): logger.info(...); break
TickWith(keys) ==
    /\ pc = "tick"
    /\ steps' = Append(steps, "poll")
    /\ \E key \in keys :
        IF process_events(key)
        THEN /\ pc' = "for"
             /\ UNCHANGED exitReason
        ELSE /\ pc' = "finally"
             /\ exitReason' = "quit"
    /\ UNCHANGED << serviceVars, matchVars, iter, success, frame, overlays,
                    calls, pending, raisedIn, cameraOpen >>

Tick == TickWith(RawKeys)

\* The step of the loop body that starts at a position.
StepAt(p) ==
    CASE p = "read" -> "acquire"
      [] p = "check" -> "process"
      [] p = "render" -> "render"
      [] p = "tick" -> "poll"

\* A call of the loop body into the camera, the detector or the window
\* raises: the loop has no except clause for it.
StepRaises ==
    /\ pc \in {"read", "check", "render", "tick"}
    /\ pc = "check" => success
    /\ Raise(StepAt(pc), "Exception")
    /\ UNCHANGED << serviceVars, matchVars, iter, success, frame, overlays,
                    steps, calls, cameraOpen >>

\* except KeyboardInterrupt: the interrupt arrives at any point of the try
\* block; the handler logs and falls through to the finally block.
KeyboardInterrupt ==
    /\ pc \in TryPcs
    /\ exitReason' = "interrupt"
    /\ pc' = "finally"
    /\ UNCHANGED << serviceVars, matchVars, iter, success, frame, overlays,
                    steps, calls, pending, raisedIn, cameraOpen >>

\* finally: main_view.close(), which returns or raises (cv2.error).
CloseView ==
    /\ pc = "finally"
    /\ calls' = Append(calls, "close")
    /\ \/ /\ pc' = "shutdown"
          /\ UNCHANGED pending
       \/ /\ pc' = "raised"
          /\ pending' = "cv2.error"
    /\ UNCHANGED << serviceVars, matchVars, loopVars, cameraOpen >>

\* A shutdown that releases the camera twice.
ShutdownTwice ==
    /\ pc = "shutdown"
    /\ calls' = calls \o << "release", "release" >>
    /\ cameraOpen' = FALSE
    /\ pc' = IF pending = "none" THEN "returned" ELSE "raised"
    /\ UNCHANGED << serviceVars, matchVars, loopVars, pending >>

\* finally: camera_controller.shutdown(); then run() returns, or the
\* exception in flight propagates.
Shutdown ==
    /\ pc = "shutdown"
    /\ calls' = Append(calls, "release")
    /\ cameraOpen' = FALSE
    /\ pc' = IF pending = "none" THEN "returned" ELSE "raised"
    /\ UNCHANGED << serviceVars, matchVars, loopVars, pending >>

Next ==
    \/ EnsureRunningInVenv
    \/ OpenCamera
    \/ ConstructService
    \/ ConstructView
    \/ NextIteration
    \/ GetFrame
    \/ SkipFrame
    \/ ProcessFrame
    \/ RenderFrame
    \/ Tick
    \/ StepRaises
    \/ KeyboardInterrupt
    \/ CloseView
    \/ Shutdown

Spec == Init /\ [][Next]_vars

\* ------------------------------------------ run() with a user who quits
\* The key codes of a user who keeps pressing a quit key: ESC, q, and ESC
\* with a modifier bit set.
QuitKeys == { KeyEsc, KeyQ, 1048603 }

\* if not main_view.tick(): ... break, with a quit key pressed at every poll.
TickQuitKey == TickWith(QuitKeys)

\* for delta, fps in fps_gen: the generator never ends; the count of the
\* iterations stops at MaxIter.
NextIterationUnbounded ==
    /\ pc = "for"
    /\ iter' = IF iter < MaxIter THEN iter + 1 ELSE iter
    /\ steps' = << >>
    /\ pc' = "read"
    /\ UNCHANGED << serviceVars, matchVars, success, frame, overlays, calls,
                    exitReason, pending, raisedIn, cameraOpen >>

\* The statements of run() other than the call of process_frame.
StatementStep ==
    \/ EnsureRunningInVenv
    \/ OpenCamera
    \/ ConstructService
    \/ ConstructView
    \/ NextIterationUnbounded
    \/ GetFrame
    \/ SkipFrame
    \/ RenderFrame
    \/ TickQuitKey
    \/ CloseView
    \/ Shutdown

\* The statements of run().
ProgramStep ==
    \/ StatementStep
    \/ ProcessFrame

\* The exceptions and interrupts, which may or may not come.
NextQuit ==
    \/ ProgramStep
    \/ StepRaises
    \/ KeyboardInterrupt

\* ProcessFrame can be taken exactly when a frame was acquired: the call
\* returns or raises.
ProcessFrameEnabled == pc = "check" /\ success

\* The interpreter executes the statements of run() one after the other
\* without stopping: a statement that is ready is executed. The second
\* conjunct is WF_vars(ProcessFrame) with ProcessFrameEnabled in the place
\* of ENABLED <<ProcessFrame>>_vars.
Fairness ==
    /\ WF_vars(StatementStep)
    /\ ([]<>(~ProcessFrameEnabled) \/ []<><<ProcessFrame>>_vars)

SpecQuit == Init /\ [][NextQuit]_vars /\ Fairness

\* ------------------------------------------------- claims on the service
\* A _match_embedding call has been made on the loaded service.
Matched == pc = "ready" /\ query # << >>

\* The distances from the query to the gallery, their minimum, and the
\* entries at the minimum.
QueryDistances == [i \in 1..Len(encodings) |-> norm(encodings[i], query)]
MinDistance ==
    CHOOSE d \in { QueryDistances[i] : i \in 1..Len(encodings) } :
        \A j \in 1..Len(encodings) : d <= QueryDistances[j]
Nearest == { i \in 1..Len(encodings) : QueryDistances[i] = MinDistance }

\* clamp(1 - d/t, 0, 1) for t # 0
Clamp01(x) == IF FracLeq(x, Zero) THEN Zero ELSE IF FracLeq(One, x) THEN One ELSE x
ClaimedConfidence(d, t) == Clamp01(Frac(t - d, t))

\* C2: for every non-empty gallery, query and threshold t, with d the
\* minimum distance from the query to a gallery entry, the match returns the
\* label of an entry at distance d with confidence clamp(1 - d/t, 0, 1) when
\* d <= t, and ("Unknown", 0.0) when d > t.
C2_MatchFormula ==
    (Matched /\ Len(encodings) > 0) =>
        IF MinDistance <= tolerance
        THEN /\ result.exc = "none"
             /\ result.name \in { names[i] : i \in Nearest }
             /\ result.confidence = ClaimedConfidence(MinDistance, tolerance)
        ELSE result = Unknown

\* C2 for the thresholds other than zero.
C2_MatchFormulaNonZero == tolerance # 0 => C2_MatchFormula

\* C3: every match returns a result, raising nothing, whose confidence is
\* in [0, 1], for any query, gallery and threshold, zero and negative
\* thresholds included.
C3_ConfidenceInUnitInterval ==
    Matched =>
        /\ result.exc = "none"
        /\ FracLeq(Zero, result.confidence)
        /\ FracLeq(result.confidence, One)

\* C4: when known_faces_dir does not exist, building the gallery raises
\* nothing and leaves zero entries; and on an empty gallery every match, for
\* any query and any threshold, returns ("Unknown", 0.0).
C4_MissingDirEmptyGallery ==
    /\ (pc # "new" /\ ~dirExists) =>
            /\ pc = "ready"
            /\ pending = "none"
            /\ encodings = << >>
            /\ names = << >>
    /\ (Matched /\ Len(encodings) = 0) => result = Unknown

C4_Witness ==
    /\ Matched
    /\ ~dirExists
    /\ Len(encodings) = 0
    /\ tolerance = 0
    /\ result = Unknown

Terminal == pc \in {"returned", "raised"}
LoopEnded == exitReason # "none"

\* The steps of an iteration that ran to its end.
FullIteration == << "acquire", "process", "render", "poll" >>

\* C1 as stated: on every way the loop ends, release() and close() are each
\* called once, release() first.
C1_ReleaseThenClose ==
    (Terminal /\ LoopEnded) => calls = << "release", "close" >>

\* C1 as amended: on every way the loop ends (quit key, exception in the
\* loop body, KeyboardInterrupt), close() is called exactly once and first;
\* release() is called exactly once after it when close() returns, and not
\* at all when close() raises.
C1_CloseThenRelease ==
    /\ (pc \in {"shutdown", "returned", "raised"} /\ LoopEnded) =>
            /\ Len(calls) >= 1
            /\ calls[1] = "close"
    /\ (Terminal /\ LoopEnded) =>
            calls = IF pending = "cv2.error"
                    THEN << "close" >>
                    ELSE << "close", "release" >>

C1_Witness ==
    /\ pc = "raised"
    /\ exitReason = "error"
    /\ raisedIn = "render"
    /\ calls = << "close", "release" >>

\* C5 as stated: process_frame returns one overlay per detected face, in
\* the detector's order; the i-th overlay carries the i-th face's box as
\* (y1, x2, y2, x1) and the match result of its embedding.
C5_OverlayBoxIsDetectorBox ==
    pc = "render" =>
        /\ Len(overlays) = Len(frame)
        /\ \A i \in 1..Len(frame) :
            /\ [k \in 1..4 |-> 2 * overlays[i].box[k]]
                 = << frame[i].bbox[2], frame[i].bbox[3],
                      frame[i].bbox[4], frame[i].bbox[1] >>
            /\ overlays[i].label
                 = _match_embedding(frame[i].embedding, encodings, names,
                                    tolerance).name
            /\ overlays[i].confidence
                 = _match_embedding(frame[i].embedding, encodings, names,
                                    tolerance).confidence

\* C5 as amended: process_frame returns one overlay per detected face, in
\* the detector's order; the i-th overlay carries the i-th face's box with
\* each coordinate truncated toward zero to a whole pixel, as
\* (y1, x2, y2, x1), and the match result of its embedding.
C5_OneOverlayPerFace ==
    pc = "render" =>
        /\ Len(overlays) = Len(frame)
        /\ \A i \in 1..Len(frame) :
            /\ overlays[i].box
                 = << AsTypeInt(frame[i].bbox[2]), AsTypeInt(frame[i].bbox[3]),
                      AsTypeInt(frame[i].bbox[4]), AsTypeInt(frame[i].bbox[1]) >>
            /\ overlays[i].label
                 = _match_embedding(frame[i].embedding, encodings, names,
                                    tolerance).name
            /\ overlays[i].confidence
                 = _match_embedding(frame[i].embedding, encodings, names,
                                    tolerance).confidence

C5_Witness ==
    /\ pc = "render"
    /\ Len(frame) = 2
    /\ frame[1].bbox # frame[2].bbox
    /\ overlays[1].label = "Bob"
    /\ overlays[2].label = "Unknown"
    /\ overlays[1].box # overlays[2].box

\* C6: a failed get_frame never ends the loop: its iteration does no
\* detection, rendering or polling, and unless a KeyboardInterrupt arrives
\* the loop goes on to the next iteration, which acquires again.
C6_FailedReadContinues ==
    [][ /\ (pc = "check" /\ ~success) =>
              \/ /\ pc' = "for"
                 /\ steps' = << "acquire" >>
                 /\ UNCHANGED << iter, overlays, exitReason, pending >>
              \/ exitReason' = "interrupt"
        /\ (pc = "for" /\ steps = << "acquire" >>) =>
              \/ /\ pc' = "read"
                 /\ iter' = iter + 1
                 /\ UNCHANGED << overlays, exitReason, pending >>
              \/ exitReason' = "interrupt"
      ]_vars

\* Iteration 2 failed to acquire, and iteration 3 is about to acquire.
C6_Witness ==
    /\ pc = "read"
    /\ iter = 3
    /\ ~success
    /\ steps = << >>
    /\ exitReason = "none"

\* The iteration in progress, if any, has run to its end.
IterationComplete ==
    \/ steps = << >>
    \/ steps = FullIteration
    \/ steps = << "acquire" >> /\ ~success

\* C7 as stated: on a quit key or a KeyboardInterrupt the loop exits only
\* after the iteration in progress has run to its end.
C7_ExitAfterIteration ==
    exitReason \in {"quit", "interrupt"} => IterationComplete

\* C7 as amended: a quit key (ESC or q in the low byte of the key code) is
\* detected only by the poll that ends an iteration, so the loop exits with
\* that iteration complete; a KeyboardInterrupt ends the loop where it
\* arrives; after either exit decision no frame is acquired or processed and
\* no iteration starts.
C7_NoFrameAfterExit ==
    [][ /\ exitReason' = "quit" => steps' = FullIteration
        /\ exitReason # "none" =>
              /\ UNCHANGED << iter, success, frame, overlays, steps, exitReason >>
              /\ pc' \in {"shutdown", "returned", "raised"}
      ]_vars

C7_Witness ==
    /\ pc = "returned"
    /\ exitReason = "quit"
    /\ steps = FullIteration
    /\ iter = 2

C10_GalleryReadOnly ==
    pc \notin {"venv", "camera", "service"} =>
        /\ Gallery(encodings, names) = loaded
        /\ tolerance = RecognitionTolerance
        /\ pc \in {"render", "tick"} =>
            /\ overlays = process_frame(frame, loaded.encodings, loaded.names,
                                        RecognitionTolerance)
            /\ \A i, j \in 1..Len(frame) :
                frame[i].embedding = frame[j].embedding =>
                    /\ overlays[i].label = overlays[j].label
                    /\ overlays[i].confidence = overlays[j].confidence

C10_Witness ==
    /\ pc = "render"
    /\ iter = 3
    /\ Len(frame) = 2
    /\ frame[1].embedding = frame[2].embedding
    /\ overlays[1].label = "Alice"
    /\ overlays[2].label = "Alice"

\* ------------------------------------------------- claims on the load
\* The places <<i, k>> of the files in the label directories of the listing:
\* file k of root entry i.
FilePlaces ==
    { p \in (1..Len(listed.entries)) \X (1..MaxFiles) :
        /\ listed.entries[p[1]].is_dir
        /\ p[2] <= Len(listed.entries[p[1]].files) }

FileAt(p) == listed.entries[p[1]].files[p[2]]

\* A reference image that can be used: it is readable and has a face.
UsableImage(f) == f.image = "ok" /\ Len(f.faces) > 0

\* The place p comes before q in the order of the listing.
Before(p, q) == p[1] < q[1] \/ (p[1] = q[1] /\ p[2] < q[2])

\* The first face of the largest bounding-box area.
LargestFace(faces) ==
    faces[CHOOSE j \in 1..Len(faces) :
            /\ \A l \in 1..Len(faces) : Area(faces[l]) <= Area(faces[j])
            /\ \A l \in 1..(j - 1) : Area(faces[l]) < Area(faces[j])]

\* The gallery holds one entry for each of the places, in their order, with
\* the directory's name and the embedding of the image's largest face.
GalleryIsExactly(places) ==
    /\ Len(encodings) = Cardinality(places)
    /\ Len(names) = Len(encodings)
    /\ \A p \in places :
        LET n == Cardinality({ q \in places : Before(q, p) }) + 1
        IN  /\ names[n] = listed.entries[p[1]].name
            /\ encodings[n] = LargestFace(FileAt(p).faces).embedding

\* C11 as stated: after the load the gallery holds one entry per image file
\* directly inside a label directory that is readable and yields a face, with
\* the directory's name and the largest face's embedding; nothing else adds
\* an entry or raises, and the two lists have equal length.
C11_EntryPerUsableImage ==
    pc # "new" =>
        /\ pc = "loaded"
        /\ pending = "none"
        /\ GalleryIsExactly({ p \in FilePlaces : UsableImage(FileAt(p)) })

\* C11 as amended: the same, for the files that match *.jpg only.
C11_EntryPerUsableJpg ==
    pc # "new" =>
        /\ pc = "loaded"
        /\ pending = "none"
        /\ GalleryIsExactly({ p \in FilePlaces :
                                /\ FileAt(p).suffix = ".jpg"
                                /\ UsableImage(FileAt(p)) })

\* Two label directories around a plain file, with an unreadable image, an
\* image without a face and an image of several faces among the files.
C11_Witness ==
    /\ pc = "loaded"
    /\ Len(listed.entries) = 3
    /\ ~listed.entries[2].is_dir
    /\ Len(encodings) = 2
    /\ names = << "Bob", "Alice" >>
    /\ encodings[2] = <<0 - 3, 0>>
    /\ \E p \in FilePlaces : FileAt(p).image = "None"
    /\ \E p \in FilePlaces : FileAt(p).image = "ok" /\ Len(FileAt(p).faces) = 0

\* ------------------------------------------- claims on quitting run()
\* C12 as stated: the quit key is polled in every iteration, so with a user
\* who keeps pressing a quit key the loop eventually ends and run() shuts
\* down, even while every read of the camera fails.
C12_QuitKeyEndsLoop == <>Terminal

\* C12 as amended: the quit key is polled only in the iterations whose
\* acquisition succeeded; with a user who keeps pressing a quit key, a
\* successful acquisition is followed by the end of the loop and the
\* shutdown, and an iteration whose acquisition failed ends without a poll.
C12_QuitAfterSuccessfulRead ==
    /\ (pc = "check" /\ success) ~> (Terminal /\ LoopEnded)
    /\ [](pc \in {"render", "tick"} => success)
    /\ []((pc = "for" /\ iter > 0 /\ ~success) => steps = << "acquire" >>)

\* The first iteration failed to acquire, the second polled the quit key.
C12_Witness ==
    /\ pc = "returned"
    /\ exitReason = "quit"
    /\ iter = 2
    /\ steps = FullIteration
    /\ calls = << "close", "release" >>

\* ------------------------------------- claims on the release of the camera
\* C13: once run() has opened the camera, the camera is released before
\* run() returns or raises, on every path: startup failures after the camera
\* was opened and a close() of the window that raises included.
C13_CameraReleased == Terminal => ~cameraOpen

====
